---- MODULE Spec2Model ----
(***************************************************************************)
(* RWAP asset-valuation dashboard (app.py).                                *)
(*                                                                         *)
(* One script, run top to bottom on every render pass:                     *)
(*   load_data (cached by the framework, keyed by its argument, the path)  *)
(*   -> KPIs -> map subset and markers -> state ranking -> raw table.      *)
(*                                                                         *)
(* The state is the input file, the framework's load cache, the checkbox   *)
(* of the session, and what the last pass put on the page.                 *)
(*                                                                         *)
(* Data encoding.  A table is a sequence of rows.  A row is a record       *)
(*   [name, state, lat, lon, value, missing].                              *)
(* An absent cell (pandas NaN) is NA.  State codes are numbered in their   *)
(* lexicographic order, so that the order of the codes is the order of     *)
(* the numbers.  The asset name of a row is its line number in the file,   *)
(* which makes the rows of one table distinguishable.                      *)
(***************************************************************************)
EXTENDS Integers, Sequences, FiniteSets

VARIABLES
    file,       \* the input file: [exists, rows]
    cache,      \* st.cache_data's entry for load_data(path): [full, df, msgs]
    toggle,     \* the session's "Show Raw Data Table" checkbox
    out,        \* what the last render pass computed and put on the page
    lastStep,   \* "init" | "pass" | "file": what the last step was
    tieBreak    \* how this build's default sort orders equal keys

vars == <<file, cache, toggle, out, lastStep, tieBreak>>

(***************************************************************************)
(* Bounds and program constants                                            *)
(***************************************************************************)
MaxRows == 2          \* rows of a table of the view specification
MaxFileRows == 2      \* rows of a file of the file-change specification
NumWide == 11         \* state codes of a wide table (one row per code)

TopN == 10            \* value_by_state.head(10)

NA == -1              \* an absent cell (NaN); no present cell is negative

StateCodes == {1, 2}
Coords == {1}
Values == {1, 2}
WideValues == {1, 2}

Path == "cleaned_asset_valuation.csv"
\* st.error(f"Error: The file '{filepath}' was not found. ...")
NotFoundMsg(filepath) == [kind |-> "error", text |-> "file not found", path |-> filepath]
NoException == "none"

\* The cells of a row, without its name.
RowData ==
    [state : StateCodes \cup {NA}, lat : Coords \cup {NA}, lon : Coords \cup {NA},
     value : Values \cup {NA}, missing : BOOLEAN]

\* Rows that vary what the map subset reads (and the flag).
GeoRowData == {d \in RowData : d.state = 1 /\ d.value # 2}

\* Rows that vary what the KPIs and the state ranking read.
SumRowData == {d \in RowData : d.lat = 1 /\ d.lon = 1}

\* Rows of the file-change specification: a complete row, a row without
\* latitude, a row flagged as missing its valuation.
FileRowData ==
    {d \in GeoRowData : d.lon = 1 /\ d.value = 1 /\ (d.lat = NA => ~d.missing)}

MkRow(i, d) ==
    [name |-> i, state |-> d.state, lat |-> d.lat, lon |-> d.lon,
     value |-> d.value, missing |-> d.missing]

\* All tables of at most n rows whose cells are drawn from D.
TablesOver(D, n) ==
    UNION {{[i \in 1..k |-> MkRow(i, f[i])] : f \in [1..k -> D]} : k \in 0..n}

\* A wide table: one complete row per state code, listed in descending code
\* order, the value of each drawn from WideValues.
WideTables ==
    {[i \in 1..NumWide |->
        [name |-> i, state |-> NumWide + 1 - i, lat |-> 1, lon |-> 1,
         value |-> v[i], missing |-> FALSE]] : v \in [1..NumWide -> WideValues]}

ViewTables ==
    TablesOver(GeoRowData, MaxRows) \cup TablesOver(SumRowData, MaxRows) \cup WideTables
FileTables == TablesOver(FileRowData, MaxFileRows)

TieBreaks == {"stable", "reversed", "oddfirst"}

(***************************************************************************)
(* Loader: load_data and its cache                                         *)
(***************************************************************************)
NoneDf == [isNone |-> TRUE, rows |-> <<>>]
EmptyCache == [full |-> FALSE, df |-> NoneDf, msgs |-> <<>>]

\* pd.read_csv(filepath): the table, or FileNotFoundError.
ReadCsv(f) ==
    IF f.exists
    THEN [exception |-> NoException, df |-> [isNone |-> FALSE, rows |-> f.rows]]
    ELSE [exception |-> "FileNotFoundError", df |-> NoneDf]

\* Mutant: no except clause, the error leaves load_data.
LoadDataBody_NoCatch(f) ==
    [exception |-> ReadCsv(f).exception, df |-> ReadCsv(f).df, msgs |-> <<>>]

\* The body of load_data: try read_csv; except FileNotFoundError: st.error, None.
LoadDataBody(f) ==
    LET r == ReadCsv(f)
    IN IF r.exception = "FileNotFoundError"
       THEN [exception |-> NoException, df |-> NoneDf, msgs |-> <<NotFoundMsg(Path)>>]
       ELSE [exception |-> r.exception, df |-> r.df, msgs |-> <<>>]

\* Mutant: a cache keyed by the file's content as well.
CacheHit_ContentKeyed(c, f) == c.full /\ c.df = ReadCsv(f).df

\* @st.cache_data: the key is the function and its argument, the path string.
\* The path is a literal, so an entry, once stored, is always hit.
CacheHit(c, f) == c.full

\* A call of load_data(path): served from the cache (the stored value and the
\* replay of the messages the body showed), or the body run and stored.
LoadData(c, f) ==
    IF CacheHit(c, f)
    THEN [exception |-> NoException, df |-> c.df, msgs |-> c.msgs,
          fileRead |-> FALSE, cache |-> c]
    ELSE LET b == LoadDataBody(f)
         IN [exception |-> b.exception, df |-> b.df, msgs |-> b.msgs,
             fileRead |-> TRUE,
             cache |-> IF b.exception = NoException
                       THEN [full |-> TRUE, df |-> b.df, msgs |-> b.msgs]
                       ELSE c]

(***************************************************************************)
(* Aggregator: the pure computations of the pass                           *)
(***************************************************************************)
Min(a, b) == IF a < b THEN a ELSE b

\* Series.sum(): absent cells are skipped.
RECURSIVE SumValues(_)
SumValues(rows) ==
    IF rows = <<>> THEN 0
    ELSE (IF Head(rows).value = NA THEN 0 ELSE Head(rows).value)
         + SumValues(Tail(rows))

\* Mutant: (df['Missing Valuation'] == key).count(), which counts every row.
ValueCountsGet_CountAll(rows, key, default) == Len(rows)

\* df['Missing Valuation'].value_counts().get(key, default): the number of
\* rows holding key, or default when no row holds it.
ValueCountsGet(rows, key, default) ==
    LET n == Cardinality({i \in DOMAIN rows : rows[i].missing = key})
    IN IF n = 0 THEN default ELSE n

\* Mutant: the subset without 'Longitude'.
DropNa_NoLongitude(rows) ==
    SelectSeq(rows, LAMBDA r : r.lat # NA /\ r.value # NA)

\* df.dropna(subset=['Latitude', 'Longitude', 'Estimated Asset Value (USD)'])
DropNa(rows) ==
    SelectSeq(rows, LAMBDA r : r.lat # NA /\ r.lon # NA /\ r.value # NA)

\* folium.CircleMarker for one row of df_map.
Marker(r) ==
    [location |-> <<r.lat, r.lon>>, radius |-> 5, tooltip |-> r.name,
     popupName |-> r.name, popupValue |-> r.value]

Markers(rows) == [k \in DOMAIN rows |-> Marker(rows[k])]

\* df.groupby('State')[value].sum(): one group per present state code, in
\* ascending code order; rows with an absent code belong to no group.
GroupBySum(rows) ==
    LET keys == {rows[i].state : i \in DOMAIN rows} \ {NA}
        group(k) ==
            LET s == CHOOSE c \in keys : Cardinality({t \in keys : t < c}) = k - 1
            IN [state |-> s,
                sum |-> SumValues(SelectSeq(rows, LAMBDA r : r.state = s))]
        groups == [k \in 1..Cardinality(keys) |-> group(k)]
    IN SubSeq(groups, 1, Cardinality(keys))

\* Mutant: an order of equal keys that differs between the first pass of a
\* server and the later ones.
TiePriority_PerPass(i, n) == IF out.rendered THEN n + 1 - i ELSE i

\* The place the default sort (kind='quicksort', not a stable sort) gives the
\* i-th of n groups among the groups of equal sum.
TiePriority(i, n) ==
    CASE tieBreak = "stable" -> i
      [] tieBreak = "reversed" -> n + 1 - i
      [] OTHER -> IF i % 2 = 1 THEN i ELSE n + i

\* .sort_values(ascending=False).reset_index()
SortValuesDesc(g) ==
    LET n == Len(g)
        before(j, i) ==
            \/ g[j].sum > g[i].sum
            \/ g[j].sum = g[i].sum /\ TiePriority(j, n) < TiePriority(i, n)
        place == SubSeq([i \in 1..n |-> 1 + Cardinality({j \in 1..n : before(j, i)})],
                        1, n)
        sorted == [k \in 1..n |-> g[CHOOSE i \in 1..n : place[i] = k]]
    IN SubSeq(sorted, 1, n)

\* Mutant: .tail(10)
Head10_Tail(s) == SubSeq(s, Len(s) - Min(TopN, Len(s)) + 1, Len(s))

\* .head(10)
Head10(s) == SubSeq(s, 1, Min(TopN, Len(s)))

(***************************************************************************)
(* The render pass, statement by statement, over the script's variables    *)
(***************************************************************************)
NoEnv ==
    [df |-> <<>>, total_assets |-> 0, total_value |-> 0,
     assets_with_valuation |-> 0, df_map |-> <<>>, markers |-> <<>>,
     value_by_state |-> <<>>, chart |-> <<>>, table |-> <<>>, elements |-> {}]

\* Mutant: the total over the rows that are not flagged only.
StmtKpi_UnflaggedTotal(env) ==
    [env EXCEPT !.total_assets = Len(env.df),
                !.total_value = SumValues(SelectSeq(env.df, LAMBDA r : ~r.missing)),
                !.assets_with_valuation = ValueCountsGet(env.df, FALSE, 0),
                !.elements = @ \cup {"kpi"}]

\* Lines 43-52: the three KPIs and their metrics.
StmtKpi(env) ==
    [env EXCEPT !.total_assets = Len(env.df),
                !.total_value = SumValues(env.df),
                !.assets_with_valuation = ValueCountsGet(env.df, FALSE, 0),
                !.elements = @ \cup {"kpi"}]

\* Mutant: dropna(inplace=True) on df itself.
StmtMap_InPlace(env) ==
    LET df_map == DropNa(env.df)
    IN [env EXCEPT !.df = df_map,
                   !.df_map = df_map,
                   !.markers = Markers(df_map),
                   !.elements = @ \cup {"map"}]

\* Mutant: the flagged rows are dropped from the map as well.
StmtMap_DropFlagged(env) ==
    LET df_map == SelectSeq(DropNa(env.df), LAMBDA r : ~r.missing)
    IN [env EXCEPT !.df_map = df_map,
                   !.markers = Markers(df_map),
                   !.elements = @ \cup {"map"}]

\* Lines 60-78: the map subset and one marker per row of it.
StmtMap(env) ==
    LET df_map == DropNa(env.df)
    IN [env EXCEPT !.df_map = df_map,
                   !.markers = Markers(df_map),
                   !.elements = @ \cup {"map"}]

\* Lines 84-96: the state ranking and the bar chart of its first ten.
StmtChart(env) ==
    LET value_by_state == SortValuesDesc(GroupBySum(env.df))
    IN [env EXCEPT !.value_by_state = value_by_state,
                   !.chart = Head10(value_by_state),
                   !.elements = @ \cup {"chart"}]

\* Mutant: st.dataframe(df_map)
StmtTable_MapRows(env, tgl) ==
    [env EXCEPT !.table = IF tgl THEN env.df_map ELSE <<>>,
                !.elements = @ \cup {"checkbox"} \cup (IF tgl THEN {"table"} ELSE {})]

\* Lines 100-102: the checkbox, and the table when it is ticked.
StmtTable(env, tgl) ==
    [env EXCEPT !.table = IF tgl THEN env.df ELSE <<>>,
                !.elements = @ \cup {"checkbox"} \cup (IF tgl THEN {"table"} ELSE {})]

\* Lines 43-96: the three derived views, in the script's order.
Views(env) == StmtChart(StmtMap(StmtKpi(env)))

\* Lines 31-102: the script from load_data's return on.
ScriptBody(ld, tgl) ==
    LET base == [NoEnv EXCEPT !.elements = IF ld.msgs = <<>> THEN {} ELSE {"error"}]
    IN IF ld.exception # NoException \/ ld.df.isNone
       THEN base
       ELSE StmtTable(Views([base EXCEPT !.df = ld.df.rows,
                                         !.elements = @ \cup {"title"}]), tgl)

NoOutput ==
    [rendered |-> FALSE, exception |-> NoException, fileRead |-> FALSE,
     dfNone |-> TRUE, msgs |-> <<>>, env |-> NoEnv]

\* One render pass, top to bottom, with the checkbox at tgl.
Pass(tgl) ==
    LET ld == LoadData(cache, file)
    IN /\ cache' = ld.cache
       /\ out' = [rendered |-> TRUE, exception |-> ld.exception,
                  fileRead |-> ld.fileRead, dfNone |-> ld.df.isNone,
                  msgs |-> ld.msgs, env |-> ScriptBody(ld, tgl)]
       /\ lastStep' = "pass"
       /\ UNCHANGED <<file, tieBreak>>

(***************************************************************************)
(* Actions                                                                 *)
(***************************************************************************)
\* The script is run again in a session that has the page: the widgets keep
\* their values.
Rerun ==
    /\ out.rendered
    /\ toggle' = toggle
    /\ Pass(toggle)

\* A new session opens the page: st.checkbox starts at its default, unticked.
NewSession ==
    /\ toggle' = FALSE
    /\ Pass(FALSE)

\* The user clicks the checkbox, which exists on a page whose load succeeded;
\* the framework flips the widget and runs the script again.
ClickCheckbox ==
    /\ "checkbox" \in out.env.elements
    /\ toggle' = ~toggle
    /\ Pass(~toggle)

\* The environment replaces the file's content, or creates the file.
WriteFile ==
    \E t \in FileTables :
        /\ file # [exists |-> TRUE, rows |-> t]
        /\ file' = [exists |-> TRUE, rows |-> t]
        /\ lastStep' = "file"
        /\ UNCHANGED <<cache, toggle, out, tieBreak>>

\* The environment removes the file.
DeleteFile ==
    /\ file.exists
    /\ file' = [exists |-> FALSE, rows |-> <<>>]
    /\ lastStep' = "file"
    /\ UNCHANGED <<cache, toggle, out, tieBreak>>

InitCommon ==
    /\ cache = EmptyCache
    /\ toggle = FALSE
    /\ out = NoOutput
    /\ lastStep = "init"
    /\ tieBreak \in TieBreaks

\* The file-change specification: a small file that the environment may
\* rewrite, delete and create between passes.
Init ==
    /\ InitCommon
    /\ file \in {[exists |-> FALSE, rows |-> <<>>]}
                \cup {[exists |-> TRUE, rows |-> t] : t \in FileTables}

Next == Rerun \/ NewSession \/ ClickCheckbox \/ WriteFile \/ DeleteFile

Spec == Init /\ [][Next]_vars

\* The view specification: any table of the view family, never changed.
InitViews ==
    /\ InitCommon
    /\ file \in {[exists |-> TRUE, rows |-> t] : t \in ViewTables}

NextViews == Rerun \/ NewSession \/ ClickCheckbox

SpecViews == InitViews /\ [][NextViews]_vars

(***************************************************************************)
(* What the properties read                                                *)
(***************************************************************************)
\* The page of the last pass shows the dashboard of a loaded table.
Loaded == out.rendered /\ out.exception = NoException /\ ~out.dfNone

\* The value of a cell in a sum: an absent cell adds nothing.
Cell(v) == IF v = NA THEN 0 ELSE v

\* The sum of the value column over the rows of T at the indices I.
RECURSIVE SumAt(_, _)
SumAt(T, I) ==
    IF I = {} THEN 0
    ELSE LET i == CHOOSE j \in I : TRUE
         IN Cell(T[i].value) + SumAt(T, I \ {i})

\* The k-th smallest element of the set of indices I.
Nth(I, k) == CHOOSE i \in I : Cardinality({j \in I : j < i}) = k - 1

(***************************************************************************)
(* C1: for every loaded table the ranking of the bar chart has at most 10  *)
(* groups (the 10 first, or all when fewer), is sorted by non-increasing   *)
(* sum, holds each state code at most once with the sum of the value       *)
(* column over all rows of that code (rows the map subset drops included), *)
(* and no state outside it has a larger sum than a state inside it.        *)
(***************************************************************************)
C1_StateRanking ==
    Loaded =>
        LET T == cache.df.rows
            r == out.env.chart
            codes == {T[i].state : i \in DOMAIN T} \ {NA}
            total(s) == SumAt(T, {i \in DOMAIN T : T[i].state = s})
            inside == {r[k].state : k \in DOMAIN r}
        IN /\ Len(r) <= 10
           /\ Len(r) = Min(10, Cardinality(codes))
           /\ \A k \in 1..(Len(r) - 1) : r[k].sum >= r[k + 1].sum
           /\ \A k \in DOMAIN r : r[k].state \in codes /\ r[k].sum = total(r[k].state)
           /\ \A k, l \in DOMAIN r : r[k].state = r[l].state => k = l
           /\ \A s \in codes \ inside : \A k \in DOMAIN r : total(s) <= r[k].sum

\* Eleven state codes, so that one falls outside the ten of the chart, with
\* a tie of sums across the cut.
C1_Witness ==
    /\ Loaded
    /\ Len(out.env.chart) = 10
    /\ Len(out.env.value_by_state) = 11
    /\ out.env.value_by_state[10].sum = out.env.value_by_state[11].sum
    /\ out.env.chart[1].sum > out.env.chart[10].sum

(***************************************************************************)
(* C2: for every loaded table the map subset holds exactly the rows whose  *)
(* latitude, longitude and value are all present, in the order of the full *)
(* table, and the map has one marker per row of it.                        *)
(***************************************************************************)
C2_MapSubset ==
    Loaded =>
        LET T == cache.df.rows
            m == out.env.df_map
            mk == out.env.markers
            kept == {i \in DOMAIN T : T[i].lat # NA /\ T[i].lon # NA /\ T[i].value # NA}
        IN /\ Len(m) = Cardinality(kept)
           /\ \A k \in 1..Len(m) : m[k] = T[Nth(kept, k)]
           /\ Len(mk) = Len(m)
           /\ \A k \in 1..Len(m) :
                /\ mk[k].location = <<m[k].lat, m[k].lon>>
                /\ mk[k].tooltip = m[k].name
                /\ mk[k].popupValue = m[k].value

\* A first row without longitude is dropped and the second row is kept.
C2_Witness ==
    /\ Loaded
    /\ Len(cache.df.rows) = 2
    /\ cache.df.rows[1].lon = NA
    /\ cache.df.rows[1].lat # NA
    /\ Len(out.env.df_map) = 1
    /\ out.env.df_map[1].name = 2

(***************************************************************************)
(* C3: for every loaded table Total Estimated Value is the sum of the      *)
(* value column over all rows, the rows flagged as missing their valuation *)
(* included.                                                               *)
(***************************************************************************)
C3_TotalValue ==
    Loaded => out.env.total_value = SumAt(cache.df.rows, DOMAIN cache.df.rows)

\* A flagged row with a value, counted in the total.
C3_Witness ==
    /\ Loaded
    /\ \E i \in DOMAIN cache.df.rows :
          /\ cache.df.rows[i].missing
          /\ cache.df.rows[i].value = 2
          /\ out.env.total_value = 3

(***************************************************************************)
(* C4: for every loaded table Assets with Valuation is the number of rows  *)
(* whose flag is false (0 when there is none) and Total Assets is the      *)
(* number of rows.                                                         *)
(***************************************************************************)
C4_Counts ==
    Loaded =>
        LET T == cache.df.rows
        IN /\ out.env.assets_with_valuation
                = Cardinality({i \in DOMAIN T : T[i].missing = FALSE})
           /\ out.env.total_assets = Len(T)

\* Two rows, both flagged: the count falls back to the default 0.
C4_Witness ==
    /\ Loaded
    /\ Len(cache.df.rows) = 2
    /\ \A i \in DOMAIN cache.df.rows : cache.df.rows[i].missing
    /\ out.env.assets_with_valuation = 0
    /\ out.env.total_assets = 2

\* The table T with every flag cleared.
Unflagged(T) == SubSeq([i \in DOMAIN T |-> [T[i] EXCEPT !.missing = FALSE]], 1, Len(T))

\* The asset names of rows, in order.
Names(rows) == [k \in DOMAIN rows |-> rows[k].name]

(***************************************************************************)
(* C10: the flag is read by the Assets-with-Valuation count only: Total    *)
(* Assets, Total Estimated Value, the map subset with its markers and the  *)
(* state ranking of a table are those of the same table with every flag    *)
(* set to false, hence the same for any two tables that differ in flags    *)
(* only.                                                                   *)
(***************************************************************************)
C10_FlagOnlyCounts ==
    Loaded =>
        LET e == out.env
            u == Views([NoEnv EXCEPT !.df = Unflagged(cache.df.rows)])
        IN /\ e.total_assets = u.total_assets
           /\ e.total_value = u.total_value
           /\ Names(e.df_map) = Names(u.df_map)
           /\ e.markers = u.markers
           /\ e.value_by_state = u.value_by_state
           /\ e.chart = u.chart

\* A table with a flagged and an unflagged row, both on the map and in the
\* ranking, which the count alone tells apart from its unflagged twin.
C10_Witness ==
    /\ Loaded
    /\ Len(out.env.df_map) = 2
    /\ out.env.df_map[1].missing
    /\ ~out.env.df_map[2].missing
    /\ out.env.total_value = 3
    /\ Len(out.env.chart) = 2
    /\ out.env.assets_with_valuation = 1

\* A step between two pages of the same table leaves the ranking as it was.
SameRanking ==
    (Loaded /\ Loaded' /\ out'.env.df = out.env.df)
        => /\ out'.env.value_by_state = out.env.value_by_state
           /\ out'.env.chart = out.env.chart

\* States of equal sum stand in ascending code order, the group-by's order.
TiesInEmissionOrder ==
    Loaded =>
        LET r == out.env.value_by_state
        IN \A k, l \in DOMAIN r :
              (k < l /\ r[k].sum = r[l].sum) => r[k].state < r[l].state

NotFoundPage ==
    /\ out.exception = NoException
    /\ out.dfNone
    /\ out.msgs = <<NotFoundMsg(Path)>>
    /\ out.msgs[1].path = Path
    /\ out.env = [NoEnv EXCEPT !.elements = {"error"}]

(***************************************************************************)
(* C5, as claimed: in any render pass where the input file does not exist  *)
(* the loader returns the absence value without raising, the not-found     *)
(* message naming the path is shown and no KPI, map, chart or table is     *)
(* computed or shown, passes served from the load cache included.          *)
(***************************************************************************)
C5_MissingFilePass == (lastStep = "pass" /\ ~file.exists) => NotFoundPage

(***************************************************************************)
(* C5, as amended: in any render pass where load_data gives the absence    *)
(* value, which is when the file did not exist at the one time it was      *)
(* read (on this pass, or on the pass whose result the cache serves), the  *)
(* loader does not raise, the not-found message naming the path is shown   *)
(* and no KPI, map, chart or table is computed or shown.  A pass that      *)
(* reads a missing file gives the absence value.                           *)
(***************************************************************************)
C5_AbsenceValuePass ==
    /\ out.exception = NoException
    /\ (lastStep = "pass" /\ out.fileRead /\ ~file.exists) => out.dfNone
    /\ (out.rendered /\ out.dfNone) => NotFoundPage
    /\ (out.rendered /\ ~out.dfNone) => "error" \notin out.env.elements

\* A pass served from the cache that shows the not-found page.
C5_Witness ==
    /\ lastStep = "pass"
    /\ ~out.fileRead
    /\ ~file.exists
    /\ NotFoundPage

\* The page shows the file as it is now.
ShowsFile ==
    /\ out.dfNone = ~file.exists
    /\ file.exists => out.env.df = file.rows

(***************************************************************************)
(* C6, as claimed: a pass does not read the file again while the file is   *)
(* unchanged since the pass before, and the pass after a change of the     *)
(* file (a missing file that appears included) shows the file's new        *)
(* content.                                                                *)
(***************************************************************************)
C6_InvalidatedOnChange ==
    [][lastStep' = "pass" =>
          /\ (cache.full /\ lastStep = "pass") => ~out'.fileRead
          /\ ShowsFile']_vars

(***************************************************************************)
(* C6, as amended: the cache is keyed by the path alone.  The first call   *)
(* reads the file; from then on no pass reads it again and the cached      *)
(* result (the table, or the absence value) is never invalidated, whether  *)
(* or not the file changes: every later pass shows what the first read     *)
(* found.                                                                  *)
(***************************************************************************)
C6_PathKeyedCache ==
    [][/\ cache.full =>
            /\ cache' = cache
            /\ lastStep' = "pass" =>
                  /\ ~out'.fileRead
                  /\ out'.dfNone = cache.df.isNone
                  /\ out'.env.df = cache.df.rows
       /\ (~cache.full /\ lastStep' = "pass") =>
            /\ out'.fileRead
            /\ cache'.full
            /\ ShowsFile']_vars

\* A pass, served from the cache, after the missing file appeared: the page
\* still says not found.
C6_Witness ==
    /\ lastStep = "pass"
    /\ ~out.fileRead
    /\ file.exists
    /\ Len(file.rows) = 2
    /\ out.dfNone

\* Every output of a page but the raw table.
OtherOutputs(o) ==
    <<o.env.total_assets, o.env.total_value, o.env.assets_with_valuation,
      o.env.df_map, o.env.markers, o.env.value_by_state, o.env.chart>>

\* The raw table is on the page exactly when loaded and ticked, and whole.
TableShownIffTicked ==
    out.rendered =>
        /\ ("table" \in out.env.elements) <=> (Loaded /\ toggle)
        /\ ("table" \in out.env.elements) => out.env.table = cache.df.rows
        /\ ("table" \notin out.env.elements) => out.env.table = <<>>

\* A step that changes the checkbox changes no other output.
ToggleChangesNothingElse ==
    (out.rendered /\ out'.rendered /\ toggle' # toggle)
        => OtherOutputs(out') = OtherOutputs(out)

(***************************************************************************)
(* C7: the raw table is on the page exactly when the load succeeded and    *)
(* the checkbox is ticked in that pass; the checkbox starts unticked; what *)
(* is shown is the whole loaded table; and a pass with the checkbox        *)
(* changed computes the same KPIs, map subset, markers and ranking.        *)
(***************************************************************************)
C7_RawTableToggle ==
    /\ toggle = FALSE
    /\ []TableShownIffTicked
    /\ [][ToggleChangesNothingElse]_vars

\* The table is shown, with a row that the map subset drops.
C7_Witness ==
    /\ Loaded
    /\ toggle
    /\ "table" \in out.env.elements
    /\ Len(out.env.table) = 2
    /\ Len(out.env.df_map) = 1

\* The table a pass ends with, and shows, is the cached one.
PassSeesLoadedTable ==
    Loaded =>
        /\ out.env.df = cache.df.rows
        /\ "table" \in out.env.elements => out.env.table = out.env.df

(***************************************************************************)
(* C9: a render pass leaves the full table as it was loaded: the cached    *)
(* table is never changed once stored, and the table every pass works on,  *)
(* and shows as the raw table, is the cached one, whatever the derived     *)
(* views dropped or grouped.                                               *)
(***************************************************************************)
C9_TableUnchanged ==
    /\ []PassSeesLoadedTable
    /\ [][cache.full => cache'.df = cache.df]_vars

\* A repeated pass over a table of which the map subset drops a row.
C9_Witness ==
    /\ Loaded
    /\ lastStep = "pass"
    /\ ~out.fileRead
    /\ Len(out.env.df) = 2
    /\ Len(out.env.df_map) < 2
    /\ out.env.df = cache.df.rows

====
